---- MODULE Spec2Model ----
(***************************************************************************)
(* A model of the terminal task tracker omfj/todo (crate todo-tui): the    *)
(* App of src/todo-tui/src/ui.rs, its event loop, and the Store of         *)
(* src/src/db.rs that it calls.                                            *)
(*                                                                         *)
(* Conventions.                                                            *)
(*   Option<T>   None is <<>>, Some(x) is <<x>>.                           *)
(*   Vec<T>      a sequence; Rust index i is element i + 1.                *)
(*   String      a sequence of one-character strings.                      *)
(*   Task, Workspace  records with the fields the program reads            *)
(*               (description and updated_at are never read by ui.rs).     *)
(***************************************************************************)
EXTENDS Integers, Sequences, FiniteSets, TLC

VARIABLES app, db, loop, last, env, walk, cmd

vars == <<app, db, loop, last, env, walk, cmd>>

(***************************************************************************)
(* Bounds of the model.                                                    *)
(***************************************************************************)
\* Tasks in a task list handed to build_task_hierarchy (specification SpecTree).
MaxTreeTasks == 3
\* created_at values of those tasks range over 1..MaxStamp.
MaxStamp == 2
\* Rows ever inserted into workspaces and into tasks (specification Spec).
MaxWorkspaces == 2
MaxTasks == 2
\* The same for specification SpecDeep: one workspace, a deeper task tree.
DeepWorkspaces == 1
DeepTasks == 3
\* Specification SpecNav: workspaces in the Store, tasks per workspace, and
\* the largest cursor index followed.
NavWorkspaces == 3
NavTasks == 3
NavCursor == 2
\* Characters the input buffer holds at most.
MaxLen == 1
\* Specification SpecText: rows ever inserted into workspaces and into tasks,
\* and the characters the input buffer holds at most.
TextWorkspaces == 1
TextTasks == 1
TextLen == 2
\* The largest cursor index the model follows when a cursor runs past an
\* empty list (a release build wraps len() - 1 and keeps counting).
MaxCursor == 1

(***************************************************************************)
(* Option and Vec helpers.                                                 *)
(***************************************************************************)
None == <<>>

Some(x) == <<x>>

IsSome(o) == o # <<>>

\* Vec::get / slice::get: Some(element) when the index is in bounds.
Get(v, i) == IF i >= 0 /\ i < Len(v) THEN Some(v[i + 1]) ELSE None

Min(a, b) == IF a <= b THEN a ELSE b

Range(s) == {s[k] : k \in DOMAIN s}

(***************************************************************************)
(* build_task_hierarchy and add_task_and_children.                         *)
(***************************************************************************)
\* A build_task_hierarchy that forgets to sort: the tasks stay in fetch order.
sort_skipped(s) == s

\* slice::sort_by_key(|t| t.created_at): a stable sort, so tasks with equal
\* created_at keep the order they have in s.
RECURSIVE sort_by_created_at(_)
sort_by_created_at(s) ==
    IF s = <<>> THEN <<>>
    ELSE LET least == CHOOSE c \in {s[k].created_at : k \in DOMAIN s} :
                          \A k \in DOMAIN s : c <= s[k].created_at
             IsLeast(t) == t.created_at = least
             IsRest(t) == t.created_at # least
         IN  SelectSeq(s, IsLeast) \o sort_by_created_at(SelectSeq(s, IsRest))

\* The accumulator of the traversal: self.task_displays and the counter index.
EmptyDisplay == [rows |-> <<>>, index |-> 0]

\* The filter that selects the children of `task` (ui.rs:145-149).
ChildrenOf(all_tasks, task) ==
    LET IsChild(t) == t.parent_task_id = Some(task.id)
    IN  SelectSeq(all_tasks, IsChild)

\* A traversal that passes its own level down instead of level + 1.
ChildLevelSame(level) == level

\* The level a child of a row at `level` is emitted at (ui.rs:158, 162).
ChildLevel(level) == level + 1

RECURSIVE add_task_and_children(_, _, _, _)
RECURSIVE add_all(_, _, _, _)
\* add_task_and_children(all_tasks, task, level, index), with acc holding
\* self.task_displays and *index.
add_task_and_children(all_tasks, task, level, acc) ==
    LET pushed == [rows  |-> Append(acc.rows,
                                    [task |-> task, level |-> level, index |-> acc.index]),
                   index |-> acc.index + 1]
        children == sort_by_created_at(ChildrenOf(all_tasks, task))
        NotDone(t) == ~t.completed
        Done(t) == t.completed
        incomplete_children == SelectSeq(children, NotDone)
        completed_children == SelectSeq(children, Done)
    IN  add_all(all_tasks, completed_children, ChildLevel(level),
                add_all(all_tasks, incomplete_children, ChildLevel(level), pushed))

\* The loops `for child in ... { self.add_task_and_children(...) }`.
add_all(all_tasks, list, level, acc) ==
    IF list = <<>> THEN acc
    ELSE add_all(all_tasks, Tail(list), level,
                 add_task_and_children(all_tasks, Head(list), level, acc))

\* A root filter that also takes a task whose parent is not in the list.
IsRootOrOrphan(tasks, t) ==
    \/ t.parent_task_id = None
    \/ \A k \in DOMAIN tasks : tasks[k].id # t.parent_task_id[1]

\* A root filter that takes every task, whatever its parent link.
IsEveryTask(tasks, t) == TRUE

\* The root filter of build_task_hierarchy (ui.rs:108, 115).
IsRootTask(tasks, t) == t.parent_task_id = None

\* build_task_hierarchy: the rows of self.task_displays built from self.tasks.
build_task_hierarchy(tasks) ==
    LET NotDoneRoot(t) == ~t.completed /\ IsRootTask(tasks, t)
        DoneRoot(t) == t.completed /\ IsRootTask(tasks, t)
        incomplete_root_tasks == sort_by_created_at(SelectSeq(tasks, NotDoneRoot))
        completed_root_tasks == sort_by_created_at(SelectSeq(tasks, DoneRoot))
    IN  add_all(tasks, completed_root_tasks, 0,
                add_all(tasks, incomplete_root_tasks, 0, EmptyDisplay)).rows

\* A build that pushes onto the rows of the previous build.
clear_skipped(v) == v

\* Vec::clear (ui.rs:103).
clear(v) == <<>>

\* A load that stores the fetched tasks and skips build_task_hierarchy.
NotRebuilt(a) == a.task_displays

\* self.task_displays after self.build_task_hierarchy() ran on the App a:
\* the old rows are cleared and the rows of a.tasks pushed.
Rebuilt(a) == clear(a.task_displays) \o build_task_hierarchy(a.tasks)

(***************************************************************************)
(* Strings.                                                                *)
(***************************************************************************)
\* The characters the user types into the input buffer.
TypedChars == {"a", " "}

\* The code point of a character: what ORDER BY name compares.
CharCode(c) == IF c = " " THEN 32 ELSE 97

IsWhitespace(c) == c = " "

\* str::trim: the string without its leading and trailing whitespace.
RECURSIVE TrimStart(_)
TrimStart(s) ==
    IF s # <<>> /\ IsWhitespace(Head(s)) THEN TrimStart(Tail(s)) ELSE s

RECURSIVE TrimEnd(_)
TrimEnd(s) ==
    IF s # <<>> /\ IsWhitespace(s[Len(s)])
    THEN TrimEnd(SubSeq(s, 1, Len(s) - 1))
    ELSE s

\* An emptiness test that forgets to trim.
Untrimmed(s) == s

Trim(s) == TrimEnd(TrimStart(s))

\* Byte-wise comparison of two strings (SQLite's BINARY collation).
RECURSIVE StrLeq(_, _)
StrLeq(a, b) ==
    IF a = <<>> THEN TRUE
    ELSE IF b = <<>> THEN FALSE
    ELSE IF CharCode(Head(a)) < CharCode(Head(b)) THEN TRUE
    ELSE IF CharCode(Head(a)) > CharCode(Head(b)) THEN FALSE
    ELSE StrLeq(Tail(a), Tail(b))

RECURSIVE Reverse(_)
Reverse(s) == IF s = <<>> THEN <<>> ELSE Append(Reverse(Tail(s)), Head(s))

(***************************************************************************)
(* The Store (src/src/db.rs).  db.workspaces and db.tasks are the tables   *)
(* in rowid order; ids and created_at come from counters the Store owns.   *)
(* A query that orders by a column leaves the order of rows with equal     *)
(* keys open: `rev` chooses rowid order or its reverse for them.           *)
(***************************************************************************)
EmptyDb == [workspaces |-> <<>>, tasks |-> <<>>,
            next_workspace_id |-> 1, next_task_id |-> 1, clock |-> 1]

RECURSIVE OrderByName(_)
OrderByName(rows) ==
    IF rows = <<>> THEN <<>>
    ELSE LET least == CHOOSE n \in {rows[k].name : k \in DOMAIN rows} :
                          \A k \in DOMAIN rows : StrLeq(n, rows[k].name)
             IsLeast(w) == w.name = least
             IsRest(w) == w.name # least
         IN  SelectSeq(rows, IsLeast) \o OrderByName(SelectSeq(rows, IsRest))

\* SELECT ... FROM workspaces ORDER BY name
get_workspaces(d, rev) ==
    OrderByName(IF rev THEN Reverse(d.workspaces) ELSE d.workspaces)

\* SELECT ... FROM tasks WHERE workspace_id = ? ORDER BY created_at
get_tasks_for_workspace(d, workspace_id, rev) ==
    LET InWorkspace(t) == t.workspace_id = workspace_id
        rows == SelectSeq(d.tasks, InWorkspace)
    IN  sort_by_created_at(IF rev THEN Reverse(rows) ELSE rows)

\* INSERT INTO workspaces (name) VALUES (?)
create_workspace(d, name) ==
    [d EXCEPT !.workspaces = Append(@, [id |-> d.next_workspace_id, name |-> name]),
              !.next_workspace_id = @ + 1]

\* The row an INSERT INTO tasks adds; dt is the time that passed since the
\* previous insert, in units of the created_at resolution.
InsertTask(d, title, workspace_id, parent_task_id, dt) ==
    [d EXCEPT !.tasks = Append(@, [id             |-> d.next_task_id,
                                   title          |-> title,
                                   completed      |-> FALSE,
                                   workspace_id   |-> workspace_id,
                                   parent_task_id |-> parent_task_id,
                                   created_at     |-> d.clock + dt]),
              !.next_task_id = @ + 1,
              !.clock = @ + dt]

\* INSERT INTO tasks (title, workspace_id) VALUES (?, ?)
create_task(d, title, workspace_id, dt) ==
    InsertTask(d, title, workspace_id, None, dt)

\* An insert that files every subtask under the first workspace of the table.
create_subtask_first(d, title, workspace_id, parent_task_id, dt) ==
    InsertTask(d, title,
               IF d.workspaces = <<>> THEN workspace_id ELSE d.workspaces[1].id,
               Some(parent_task_id), dt)

\* An insert that stores the id of the new row as its own parent.
create_subtask_self(d, title, workspace_id, parent_task_id, dt) ==
    InsertTask(d, title, workspace_id, Some(d.next_task_id), dt)

\* INSERT INTO tasks (title, workspace_id, parent_task_id) VALUES (?, ?, ?)
create_subtask(d, title, workspace_id, parent_task_id, dt) ==
    InsertTask(d, title, workspace_id, Some(parent_task_id), dt)

\* An UPDATE that sets completed = 1 instead of negating it.
complete_task(d, task_id) ==
    [d EXCEPT !.tasks = [k \in DOMAIN @ |->
        IF @[k].id = task_id THEN [@[k] EXCEPT !.completed = TRUE] ELSE @[k]]]

\* UPDATE tasks SET completed = NOT completed WHERE id = ?
toggle_task_completion(d, task_id) ==
    [d EXCEPT !.tasks = [k \in DOMAIN @ |->
        IF @[k].id = task_id THEN [@[k] EXCEPT !.completed = ~@] ELSE @[k]]]

\* UPDATE workspaces SET name = ? WHERE id = ?
update_workspace_name(d, workspace_id, name) ==
    [d EXCEPT !.workspaces = [k \in DOMAIN @ |->
        IF @[k].id = workspace_id THEN [@[k] EXCEPT !.name = name] ELSE @[k]]]

\* UPDATE tasks SET title = ? WHERE id = ?
update_task_name(d, task_id, title) ==
    [d EXCEPT !.tasks = [k \in DOMAIN @ |->
        IF @[k].id = task_id THEN [@[k] EXCEPT !.title = title] ELSE @[k]]]

\* A delete_workspace whose first statement deletes nothing.
DeleteNoTasks(d, workspace_id) == d

\* delete_workspace, first statement (db.rs:119-121):
\* DELETE FROM tasks WHERE workspace_id = ?
DeleteWorkspaceTasks(d, workspace_id) ==
    LET OtherTask(t) == t.workspace_id # workspace_id
    IN  [d EXCEPT !.tasks = SelectSeq(@, OtherTask)]

\* delete_workspace, second statement (db.rs:123-125):
\* DELETE FROM workspaces WHERE id = ?
DeleteWorkspaceRow(d, workspace_id) ==
    LET OtherWorkspace(w) == w.id # workspace_id
    IN  [d EXCEPT !.workspaces = SelectSeq(@, OtherWorkspace)]

\* delete_workspace when both statements return Ok.  The two statements run
\* on the pool one after the other, outside any transaction.
delete_workspace(d, workspace_id) ==
    DeleteWorkspaceRow(DeleteWorkspaceTasks(d, workspace_id), workspace_id)

\* DELETE FROM tasks WHERE id = ?
delete_task(d, task_id) ==
    LET Other(t) == t.id # task_id
    IN  [d EXCEPT !.tasks = SelectSeq(@, Other)]

(***************************************************************************)
(* usize arithmetic.  len() - 1 on an empty Vec underflows: a build with   *)
(* overflow checks (debug) panics, a build without them (release) wraps to *)
(* usize::MAX.  The model keeps 30 of the 64 bits, which TLC's integers    *)
(* hold; only the wrap of 0 - 1 is ever computed.                          *)
(***************************************************************************)
UsizeModulus == 2 ^ 30

UsizeMax == UsizeModulus - 1

WrappingSub(a, b) == (a - b + UsizeModulus) % UsizeModulus

(***************************************************************************)
(* App (src/todo-tui/src/ui.rs).                                           *)
(***************************************************************************)
\* App::new
AppNew ==
    [workspaces         |-> <<>>,
     tasks              |-> <<>>,
     task_displays      |-> <<>>,
     workspace_state    |-> Some(0),
     task_state         |-> None,
     selected_workspace |-> Some(0),
     focus              |-> "Workspaces",
     input_mode         |-> "Normal",
     input_buffer       |-> <<>>,
     delete_target      |-> None,
     creating_subtask   |-> FALSE]

(***************************************************************************)
(* One command runs on a machine m: the App, the Store, and how the        *)
(* command's Store calls and arithmetic turn out.                          *)
(*   fuel   k > 0: the k-th Store statement of the command fails; 0: none  *)
(*   rev    the order the Store gives rows with equal sort keys            *)
(*   debug  whether the build checks arithmetic overflow                   *)
(*   dt     the clock's advance before an insert                           *)
(*   calls  the Store statements executed so far                           *)
(*   err    a Store call failed and `?` is propagating the error           *)
(*   panic  the thread panicked                                            *)
(*   quit   the loop returned Ok(()) on the quit key                       *)
(*   did    the command's mutating Store call was made and succeeded       *)
(*   target the id that call was given                                     *)
(***************************************************************************)
Machine(a, d, fuel, rev, debug, dt) ==
    [app |-> a, db |-> d, fuel |-> fuel, rev |-> rev, debug |-> debug, dt |-> dt,
     calls |-> 0, err |-> FALSE, panic |-> FALSE, quit |-> FALSE,
     did |-> FALSE, target |-> 0]

\* Nothing more of the command runs once an error propagates or it panicked.
Stopped(m) == m.err \/ m.panic

StoreFails(m) == m.fuel = 1

\* The Store call returned Err: `.await?` returns it from the handler.
Failed(m) == [m EXCEPT !.err = TRUE, !.fuel = 0, !.calls = @ + 1]

\* The Store call returned Ok.
Returned(m) == [m EXCEPT !.fuel = IF @ > 0 THEN @ - 1 ELSE 0, !.calls = @ + 1]

\* The command's mutating Store call returned Ok.
Mutated(m, d, id) == Returned([m EXCEPT !.db = d, !.did = TRUE, !.target = id])

\* self.db.delete_workspace(id).await? (ui.rs:400, db.rs:118-128): each of
\* the two statements can return Err, and `?` inside delete_workspace
\* returns it with the first statement's deletions already made.
DeleteWorkspace(m, id) ==
    IF StoreFails(m) THEN Failed(m)
    ELSE LET m1 == Returned([m EXCEPT !.db = DeleteWorkspaceTasks(m.db, id)])
         IN  IF StoreFails(m1) THEN Failed(m1)
             ELSE Mutated(m1, delete_workspace(m.db, id), id)

\* The reset of the task cursor at the end of a reload (ui.rs:92-96).
ReloadedTaskState(rows) == IF rows = <<>> THEN None ELSE Some(0)

\* load_tasks_for_selected_workspace
load_tasks_for_selected_workspace(m) ==
    IF Stopped(m) THEN m
    ELSE LET a == m.app
             workspace == IF a.selected_workspace = None THEN None
                          ELSE Get(a.workspaces, a.selected_workspace[1])
         IN  IF workspace = None THEN m
             ELSE IF StoreFails(m) THEN Failed(m)
             ELSE LET fetched == get_tasks_for_workspace(m.db, workspace[1].id, m.rev)
                      rows == Rebuilt([a EXCEPT !.tasks = fetched])
                  IN  Returned([m EXCEPT !.app.tasks = fetched,
                                         !.app.task_displays = rows,
                                         !.app.task_state = ReloadedTaskState(rows)])

\* load_workspaces
load_workspaces(m) ==
    IF Stopped(m) THEN m
    ELSE IF StoreFails(m) THEN Failed(m)
    ELSE LET fetched == get_workspaces(m.db, m.rev)
             m1 == Returned([m EXCEPT !.app.workspaces = fetched])
         IN  IF fetched # <<>>
             THEN load_tasks_for_selected_workspace(
                      [m1 EXCEPT !.app.workspace_state = Some(0),
                                 !.app.selected_workspace = Some(0)])
             ELSE m1

\* An advance that stops at the last element instead of wrapping to the first.
NextIndexStops(selected, len, debug) ==
    IF selected = None THEN Some(0)
    ELSE IF len = 0 /\ debug THEN None
    ELSE IF selected[1] >= WrappingSub(len, 1) THEN selected
    ELSE Some(selected[1] + 1)

\* The index next_workspace / next_task move to: cursor `selected` over a
\* list of length len.  None: the subtraction len - 1 panicked.
NextIndex(selected, len, debug) ==
    IF selected = None THEN Some(0)
    ELSE IF len = 0 /\ debug THEN None
    ELSE IF selected[1] >= WrappingSub(len, 1) THEN Some(0)
    ELSE Some(selected[1] + 1)

\* The index previous_workspace / previous_task move to.
PreviousIndex(selected, len, debug) ==
    IF selected = None THEN Some(0)
    ELSE IF selected[1] = 0
         THEN IF len = 0 /\ debug THEN None ELSE Some(WrappingSub(len, 1))
    ELSE Some(selected[1] - 1)

Panicked(m) == [m EXCEPT !.panic = TRUE]

\* next_workspace
next_workspace(m) ==
    LET i == NextIndex(m.app.workspace_state, Len(m.app.workspaces), m.debug)
    IN  IF i = None THEN Panicked(m)
        ELSE load_tasks_for_selected_workspace(
                 [m EXCEPT !.app.workspace_state = i, !.app.selected_workspace = i])

\* previous_workspace
previous_workspace(m) ==
    LET i == PreviousIndex(m.app.workspace_state, Len(m.app.workspaces), m.debug)
    IN  IF i = None THEN Panicked(m)
        ELSE load_tasks_for_selected_workspace(
                 [m EXCEPT !.app.workspace_state = i, !.app.selected_workspace = i])

\* next_task
next_task(m) ==
    LET i == NextIndex(m.app.task_state, Len(m.app.task_displays), m.debug)
    IN  IF i = None THEN Panicked(m) ELSE [m EXCEPT !.app.task_state = i]

\* previous_task
previous_task(m) ==
    LET i == PreviousIndex(m.app.task_state, Len(m.app.task_displays), m.debug)
    IN  IF i = None THEN Panicked(m) ELSE [m EXCEPT !.app.task_state = i]

\* start_creating_subtask
start_creating_subtask(m) ==
    [m EXCEPT !.app.input_buffer = <<>>,
              !.app.creating_subtask = TRUE,
              !.app.input_mode = "Creating"]

\* start_creating_task
start_creating_task(m) ==
    [m EXCEPT !.app.input_buffer = <<>>,
              !.app.creating_subtask = FALSE,
              !.app.input_mode = "Creating"]

\* cancel_creating
cancel_creating(m) ==
    IF Stopped(m) THEN m
    ELSE [m EXCEPT !.app.input_mode = "Normal", !.app.input_buffer = <<>>]

\* The row under the task cursor: task_state.selected() then task_displays.get.
SelectedTaskDisplay(a) ==
    IF a.task_state = None THEN None ELSE Get(a.task_displays, a.task_state[1])

\* The workspace under the workspace cursor.
SelectedWorkspace(a) ==
    IF a.workspace_state = None THEN None ELSE Get(a.workspaces, a.workspace_state[1])

\* The workspace selected_workspace names (the one whose tasks are loaded).
ActiveWorkspace(a) ==
    IF a.selected_workspace = None THEN None
    ELSE Get(a.workspaces, a.selected_workspace[1])

\* A finish_creating that takes the first row of the display as the parent,
\* not the row under the cursor.
NewTaskParentFirstRow(a) ==
    IF a.creating_subtask /\ a.task_displays # <<>>
    THEN Some(a.task_displays[1].task.id)
    ELSE None

\* The parent finish_creating gives the new task (ui.rs:254-279): Some(id)
\* calls create_subtask, None calls create_task.
NewTaskParent(a) ==
    IF a.creating_subtask /\ SelectedTaskDisplay(a) # None
    THEN Some(SelectedTaskDisplay(a)[1].task.id)
    ELSE None

\* finish_creating
finish_creating(m) ==
    LET a == m.app
    IN  IF Trim(a.input_buffer) = <<>> THEN cancel_creating(m)
        ELSE IF a.focus = "Workspaces"
        THEN IF StoreFails(m) THEN Failed(m)
             ELSE cancel_creating(load_workspaces(
                      Mutated(m, create_workspace(m.db, a.input_buffer),
                              m.db.next_workspace_id)))
        ELSE IF ActiveWorkspace(a) = None THEN cancel_creating(m)
        ELSE IF StoreFails(m) THEN Failed(m)
        ELSE LET workspace == ActiveWorkspace(a)[1]
                 parent == NewTaskParent(a)
                 d == IF parent = None
                      THEN create_task(m.db, a.input_buffer, workspace.id, m.dt)
                      ELSE create_subtask(m.db, a.input_buffer, workspace.id,
                                          parent[1], m.dt)
             IN  cancel_creating(load_tasks_for_selected_workspace(
                     Mutated(m, d, m.db.next_task_id)))

\* A toggle that forgets to select the saved index again: the cursor is the
\* one the reload left.
ToggleNoRestore(m, current_selection) == m

\* A toggle whose cursor follows the toggled task to its new row.
ToggleFollow(m, current_selection) ==
    IF Stopped(m) THEN m
    ELSE LET at == {k \in DOMAIN m.app.task_displays :
                        m.app.task_displays[k].task.id = m.target}
         IN  IF at = {} THEN [m EXCEPT !.app.task_state = current_selection]
             ELSE [m EXCEPT !.app.task_state = Some((CHOOSE k \in at : TRUE) - 1)]

\* The cursor toggle_current_task_completion leaves (ui.rs:299, 301): the
\* selection saved before the reload is selected again after it.
ToggleRestore(m, current_selection) ==
    IF Stopped(m) THEN m ELSE [m EXCEPT !.app.task_state = current_selection]

\* toggle_current_task_completion
toggle_current_task_completion(m) ==
    LET a == m.app
    IN  IF a.focus # "Tasks" \/ SelectedTaskDisplay(a) = None THEN m
        ELSE IF StoreFails(m) THEN Failed(m)
        ELSE LET id == SelectedTaskDisplay(a)[1].task.id
                 current_selection == a.task_state
             IN  ToggleRestore(
                     load_tasks_for_selected_workspace(
                         Mutated(m, toggle_task_completion(m.db, id), id)),
                     current_selection)

\* The name start_rename and start_delete_confirm read under the cursor
\* (unwrap_or_default: the empty string when the cursor is out of bounds).
NameUnderCursor(a) ==
    IF a.focus = "Workspaces"
    THEN IF SelectedWorkspace(a) = None THEN <<>> ELSE SelectedWorkspace(a)[1].name
    ELSE IF SelectedTaskDisplay(a) = None THEN <<>>
         ELSE SelectedTaskDisplay(a)[1].task.title

\* The cursor of the focused panel.
FocusedCursor(a) ==
    IF a.focus = "Workspaces" THEN a.workspace_state ELSE a.task_state

\* start_rename
start_rename(m) ==
    [m EXCEPT !.app.input_buffer = NameUnderCursor(m.app),
              !.app.input_mode = "Insert"]

\* A cancel_rename that leaves the mode's text in the buffer.
cancel_rename_mode(m) ==
    IF Stopped(m) THEN m ELSE [m EXCEPT !.app.input_mode = "Normal"]

\* The end of finish_rename and the whole of cancel_rename (ui.rs:358-359).
cancel_rename(m) ==
    IF Stopped(m) THEN m
    ELSE [m EXCEPT !.app.input_mode = "Normal", !.app.input_buffer = <<>>]

\* finish_rename
finish_rename(m) ==
    LET a == m.app
    IN  IF a.focus = "Workspaces"
        THEN IF SelectedWorkspace(a) = None THEN cancel_rename(m)
             ELSE IF StoreFails(m) THEN Failed(m)
             ELSE LET id == SelectedWorkspace(a)[1].id
                  IN  cancel_rename(load_workspaces(
                          Mutated(m, update_workspace_name(m.db, id, a.input_buffer), id)))
        ELSE IF SelectedTaskDisplay(a) = None THEN cancel_rename(m)
             ELSE IF StoreFails(m) THEN Failed(m)
             ELSE LET id == SelectedTaskDisplay(a)[1].task.id
                  IN  cancel_rename(load_tasks_for_selected_workspace(
                          Mutated(m, update_task_name(m.db, id, a.input_buffer), id)))

\* start_delete_confirm
start_delete_confirm(m) ==
    IF FocusedCursor(m.app) = None THEN m
    ELSE [m EXCEPT !.app.delete_target = Some(NameUnderCursor(m.app)),
                   !.app.input_mode = "DeleteConfirm"]

\* A cancel_delete_confirm that forgets the mode and clears only the target.
cancel_delete_confirm_target(m) ==
    IF Stopped(m) THEN m ELSE [m EXCEPT !.app.delete_target = None]

\* cancel_delete_confirm
cancel_delete_confirm(m) ==
    IF Stopped(m) THEN m
    ELSE [m EXCEPT !.app.input_mode = "Normal", !.app.delete_target = None]

\* A confirm_delete that selects the saved index again without the bound check.
ClampSkipped(selected, len) == selected

\* The index confirm_delete selects after the reload (ui.rs:403-407, 421-425).
ClampSelection(selected, len) == IF selected >= len THEN len - 1 ELSE selected

\* confirm_delete, Focus::Workspaces, after the delete (ui.rs:401-411).
ReselectWorkspace(m, selected) ==
    LET m1 == load_workspaces(m)
    IN  IF Stopped(m1) \/ m1.app.workspaces = <<>> THEN m1
        ELSE LET new_selection == ClampSelection(selected, Len(m1.app.workspaces))
             IN  load_tasks_for_selected_workspace(
                     [m1 EXCEPT !.app.workspace_state = Some(new_selection),
                                !.app.selected_workspace = Some(new_selection)])

\* confirm_delete, Focus::Tasks, after the delete (ui.rs:419-427).
ReselectTask(m, selected) ==
    LET m1 == load_tasks_for_selected_workspace(m)
    IN  IF Stopped(m1) \/ m1.app.task_displays = <<>> THEN m1
        ELSE [m1 EXCEPT !.app.task_state =
                            Some(ClampSelection(selected, Len(m1.app.task_displays)))]

\* confirm_delete
confirm_delete(m) ==
    LET a == m.app
    IN  IF a.focus = "Workspaces"
        THEN IF SelectedWorkspace(a) = None THEN cancel_delete_confirm(m)
             ELSE LET id == SelectedWorkspace(a)[1].id
                  IN  cancel_delete_confirm(ReselectWorkspace(
                          DeleteWorkspace(m, id), a.workspace_state[1]))
        ELSE IF SelectedTaskDisplay(a) = None THEN cancel_delete_confirm(m)
             ELSE IF StoreFails(m) THEN Failed(m)
             ELSE LET id == SelectedTaskDisplay(a)[1].task.id
                  IN  cancel_delete_confirm(ReselectTask(
                          Mutated(m, delete_task(m.db, id), id),
                          a.task_state[1]))

\* show_help
show_help(m) == [m EXCEPT !.app.input_mode = "Help"]

\* hide_help
hide_help(m) == [m EXCEPT !.app.input_mode = "Normal"]

(***************************************************************************)
(* ui: the frame drawn at the top of every loop iteration.  It hands both  *)
(* ListStates to the list widget by mutable reference                      *)
(* (render_stateful_widget).  What the widget does to a selection that is  *)
(* out of bounds depends on the library version and on the area it draws   *)
(* in: it leaves it, or (clamp) it selects the last item, and nothing when *)
(* the list is empty.                                                      *)
(***************************************************************************)
RenderList(selected, len, clamp) ==
    IF ~clamp THEN selected
    ELSE IF len = 0 THEN None
    ELSE IF selected # None /\ selected[1] >= len THEN Some(len - 1)
    ELSE selected

ui(a, clamp) ==
    [a EXCEPT !.workspace_state = RenderList(@, Len(a.workspaces), clamp),
              !.task_state = RenderList(@, Len(a.task_displays), clamp)]

(***************************************************************************)
(* The event loop (run_app, run_app_loop).  One action is one iteration:   *)
(* terminal.draw, event::read, and the whole handler of the key read.      *)
(*   loop   "start" before run_app, "running" inside run_app_loop,         *)
(*          "ended" once run_app_loop returned or the thread panicked      *)
(*   last   what the last iteration did: the handler (op), how it ended    *)
(*          (res: "ok", "err" a Store call failed, "panic", "quit"),       *)
(*          whether its mutating Store call succeeded (did) and on which   *)
(*          id (target); the Store calls it made (calls); the text a       *)
(*          commit of Creating or Insert found in the buffer (text); for a *)
(*          command that mutated the Store, the cursors and the number of  *)
(*          rows the handler found; when a Store call failed, the App the  *)
(*          handler started from (pre); and, for a toggle that follows a   *)
(*          toggle with no key between them, the task the first one        *)
(*          toggled (repeated)                                             *)
(*   env    the session's environment, fixed by the specification: the     *)
(*          bounds, whether the list widget clamps (clamps), whether the   *)
(*          build checks overflow (debugs), how far the clock moves        *)
(*          between inserts (steps), whether Store calls can fail          *)
(*   walk   the call stack of a build_task_hierarchy that is followed call *)
(*          by call (specification SpecWalk), and its counter index        *)
(*   cmd    the handler in progress when the loop is followed statement by *)
(*          statement (specification SpecSteps); None when none is         *)
(***************************************************************************)
NoWalk == [stack |-> <<>>, index |-> 0]

Idle ==
    [op |-> "none", res |-> "ok", did |-> FALSE, target |-> 0, calls |-> 0,
     text |-> <<>>, task_cursor |-> None, workspace_cursor |-> None, rows |-> 0, pre |-> None,
     repeated |-> None]

Result(m) ==
    IF m.panic THEN "panic"
    ELSE IF m.err THEN "err"
    ELSE IF m.quit THEN "quit"
    ELSE "ok"

\* A cursor the model follows: in 0..env.max_cursor, or the wrapped usize::MAX.
Followed(o) ==
    IF o = None THEN TRUE ELSE (o[1] <= env.max_cursor \/ o[1] = UsizeMax)

WithinBounds(m) ==
    /\ m.db.next_workspace_id <= env.max_workspaces + 1
    /\ m.db.next_task_id <= env.max_tasks + 1
    /\ Len(m.app.input_buffer) <= env.max_len
    /\ Followed(m.app.workspace_state)
    /\ Followed(m.app.task_state)

\* The frames terminal.draw can leave: the App after ui.
Drawn == {ui(app, clamp) : clamp \in env.clamps}

\* Whether two rows of a table have equal sort keys, so that `rev` matters.
HasEqualKeys(d) ==
    \/ \E i, j \in DOMAIN d.workspaces :
           i < j /\ d.workspaces[i].name = d.workspaces[j].name
    \/ \E i, j \in DOMAIN d.tasks :
           /\ i < j
           /\ d.tasks[i].workspace_id = d.tasks[j].workspace_id
           /\ d.tasks[i].created_at = d.tasks[j].created_at

\* The machines handler H can end in, started on the drawn App a: over the
\* Store call that fails (none, or any call the handler makes), the order of
\* rows with equal keys, the build, and the clock.
Outcomes(H(_), a, debugs, steps) ==
    UNION { LET free == H(Machine(a, db, 0, FALSE, debug, dt))
                fuels == IF env.failures THEN 0 .. free.calls ELSE {0}
                revs == IF HasEqualKeys(db) \/ HasEqualKeys(free.db)
                        THEN BOOLEAN ELSE {FALSE}
            IN  {H(Machine(a, db, fuel, rev, debug, dt)) : fuel \in fuels, rev \in revs}
          : debug \in debugs, dt \in steps }

\* What `last` keeps of an iteration that ran handler `op` on the drawn App
\* a and ended in machine m.
Report(op, a, m) ==
    [op               |-> op,
     res              |-> Result(m),
     did              |-> m.did,
     target           |-> m.target,
     calls            |-> m.calls,
     text             |-> IF op \in {"finish_creating", "finish_rename"}
                          THEN a.input_buffer ELSE <<>>,
     task_cursor      |-> IF m.did THEN a.task_state ELSE None,
     workspace_cursor |-> IF m.did THEN a.workspace_state ELSE None,
     rows             |-> IF m.did THEN Len(a.task_displays) ELSE 0,
     pre              |-> IF m.err THEN Some(a) ELSE None,
     repeated         |-> IF /\ op = "toggle_current_task_completion" /\ m.did
                             /\ last.op = op /\ last.did
                          THEN Some(last.target) ELSE None]

\* The iteration ran handler `op` on the drawn App a and ended in machine m.
Commit(op, a, m) ==
    /\ WithinBounds(m)
    /\ app' = m.app
    /\ db' = m.db
    /\ loop' = IF Result(m) = "ok" THEN "running" ELSE "ended"
    /\ last' = Report(op, a, m)
    /\ UNCHANGED <<env, walk, cmd>>

\* An iteration whose handler H makes Store calls.
Handle(op, H(_), debugs, steps) ==
    \E a \in Drawn : \E m \in Outcomes(H, a, debugs, steps) : Commit(op, a, m)

\* An iteration whose handler H makes none.
HandleLocal(op, H(_)) ==
    \E a \in Drawn : Commit(op, a, H(Machine(a, db, 0, FALSE, FALSE, 0)))

\* A loop that dispatches the key without looking at the input mode.
InAnyMode(mode) == loop = "running"

\* The arm of `match app.input_mode` the key is dispatched in (ui.rs:485).
InMode(mode) == loop = "running" /\ app.input_mode = mode

\* run_app: App::new, load_workspaces, then the loop; an error of the first
\* load is returned before the loop starts.
RunApp ==
    /\ loop \in {"start", "ended"}
    /\ \E m \in Outcomes(load_workspaces, AppNew, {FALSE}, {0}) :
           Commit("run_app", AppNew, m)

\* KeyCode::Char('q') in Normal mode: return Ok(()).
quit(m) == [m EXCEPT !.quit = TRUE]

Quit ==
    /\ InMode("Normal")
    /\ HandleLocal("quit", quit)

\* KeyCode::Down | KeyCode::Char('j')
KeyDown ==
    /\ InMode("Normal")
    /\ IF app.focus = "Workspaces"
       THEN Handle("next_workspace", next_workspace, env.debugs, {0})
       ELSE Handle("next_task", next_task, env.debugs, {0})

\* KeyCode::Up | KeyCode::Char('k')
KeyUp ==
    /\ InMode("Normal")
    /\ IF app.focus = "Workspaces"
       THEN Handle("previous_workspace", previous_workspace, env.debugs, {0})
       ELSE Handle("previous_task", previous_task, env.debugs, {0})

\* KeyCode::Right | KeyCode::Char('l')
focus_tasks(m) == [m EXCEPT !.app.focus = "Tasks"]

KeyRight ==
    /\ InMode("Normal")
    /\ HandleLocal("focus", focus_tasks)

\* KeyCode::Left | KeyCode::Char('h')
focus_workspaces(m) == [m EXCEPT !.app.focus = "Workspaces"]

KeyLeft ==
    /\ InMode("Normal")
    /\ HandleLocal("focus", focus_workspaces)

\* KeyCode::Tab
focus_other(m) ==
    [m EXCEPT !.app.focus = IF @ = "Workspaces" THEN "Tasks" ELSE "Workspaces"]

KeyTab ==
    /\ InMode("Normal")
    /\ HandleLocal("focus", focus_other)

\* KeyCode::Char('a')
KeyAdd ==
    /\ InMode("Normal")
    /\ IF app.focus = "Tasks"
       THEN HandleLocal("start_creating_subtask", start_creating_subtask)
       ELSE HandleLocal("start_creating_task", start_creating_task)

\* KeyCode::Char('A')
KeyAddTop ==
    /\ InMode("Normal")
    /\ HandleLocal("start_creating_task", start_creating_task)

\* KeyCode::Char('c')
KeyToggle ==
    /\ InMode("Normal")
    /\ Handle("toggle_current_task_completion", toggle_current_task_completion,
              {FALSE}, {0})

\* KeyCode::Char('r')
KeyRename ==
    /\ InMode("Normal")
    /\ HandleLocal("start_rename", start_rename)

\* KeyCode::Char('D')
KeyDelete ==
    /\ InMode("Normal")
    /\ HandleLocal("start_delete_confirm", start_delete_confirm)

\* KeyCode::Char('?')
KeyHelp ==
    /\ InMode("Normal")
    /\ HandleLocal("show_help", show_help)

\* InputMode::Insert, KeyCode::Enter
InsertEnter ==
    /\ InMode("Insert")
    /\ Handle("finish_rename", finish_rename, {FALSE}, {0})

\* InputMode::Insert, KeyCode::Esc
InsertEsc ==
    /\ InMode("Insert")
    /\ HandleLocal("cancel_rename", cancel_rename)

\* KeyCode::Backspace in Insert or Creating mode: input_buffer.pop()
pop(m) ==
    [m EXCEPT !.app.input_buffer = IF @ = <<>> THEN @ ELSE SubSeq(@, 1, Len(@) - 1)]

Backspace ==
    /\ loop = "running"
    /\ app.input_mode \in {"Insert", "Creating"}
    /\ HandleLocal("pop", pop)

\* KeyCode::Char(c) in Insert or Creating mode: input_buffer.push(c)
push_letter(m) == [m EXCEPT !.app.input_buffer = Append(@, "a")]

push_space(m) == [m EXCEPT !.app.input_buffer = Append(@, " ")]

TypeLetter ==
    /\ loop = "running"
    /\ app.input_mode \in {"Insert", "Creating"}
    /\ HandleLocal("push", push_letter)

TypeSpace ==
    /\ loop = "running"
    /\ app.input_mode \in {"Insert", "Creating"}
    /\ HandleLocal("push", push_space)

\* InputMode::Creating, KeyCode::Enter
CreatingEnter ==
    /\ InMode("Creating")
    /\ Handle("finish_creating", finish_creating, {FALSE}, env.steps)

\* InputMode::Creating, KeyCode::Esc
CreatingEsc ==
    /\ InMode("Creating")
    /\ HandleLocal("cancel_creating", cancel_creating)

\* InputMode::DeleteConfirm, KeyCode::Char('y') | KeyCode::Char('Y')
ConfirmYes ==
    /\ InMode("DeleteConfirm")
    /\ Handle("confirm_delete", confirm_delete, {FALSE}, {0})

\* InputMode::DeleteConfirm, KeyCode::Char('n') | KeyCode::Char('N') | KeyCode::Esc
ConfirmNo ==
    /\ InMode("DeleteConfirm")
    /\ HandleLocal("cancel_delete_confirm", cancel_delete_confirm)

\* InputMode::Help, KeyCode::Char('?') | KeyCode::Esc | KeyCode::Char('q')
HelpDismiss ==
    /\ InMode("Help")
    /\ HandleLocal("hide_help", hide_help)

\* A key the mode has no binding for (the `_ => {}` arms), or an event that
\* is no key: the iteration only draws.
ignored(m) == m

KeyIgnored ==
    /\ loop = "running"
    /\ HandleLocal("ignored", ignored)

(***************************************************************************)
(* Spec and SpecDeep: the application on a fresh Store.  The user types    *)
(* only the letter "a" and never Backspace; the list widget may or may not *)
(* clamp; the build may or may not check overflow; any Store call may      *)
(* fail; the clock moves between any two inserts.  The two differ in their *)
(* bounds only.                                                            *)
(***************************************************************************)
Fresh(max_workspaces, max_tasks, max_len) ==
    /\ app = AppNew
    /\ db = EmptyDb
    /\ loop = "start"
    /\ last = Idle
    /\ walk = NoWalk
    /\ cmd = None
    /\ env = [max_workspaces |-> max_workspaces,
              max_tasks      |-> max_tasks,
              max_len        |-> max_len,
              max_cursor     |-> MaxCursor,
              clamps         |-> BOOLEAN,
              debugs         |-> BOOLEAN,
              steps          |-> {1},
              failures       |-> TRUE]

Init == Fresh(MaxWorkspaces, MaxTasks, MaxLen)

InitDeep == Fresh(DeepWorkspaces, DeepTasks, MaxLen)

Next ==
    \/ RunApp
    \/ Quit
    \/ KeyDown
    \/ KeyUp
    \/ KeyRight
    \/ KeyLeft
    \/ KeyTab
    \/ KeyAdd
    \/ KeyAddTop
    \/ KeyToggle
    \/ KeyRename
    \/ KeyDelete
    \/ KeyHelp
    \/ InsertEnter
    \/ InsertEsc
    \/ TypeLetter
    \/ CreatingEnter
    \/ CreatingEsc
    \/ ConfirmYes
    \/ ConfirmNo
    \/ HelpDismiss
    \/ KeyIgnored

Spec == Init /\ [][Next]_vars

SpecDeep == InitDeep /\ [][Next]_vars

(***************************************************************************)
(* SpecText: the application on a fresh Store with the whole keyboard of   *)
(* the text modes: the user also types spaces and Backspace.               *)
(***************************************************************************)
InitText == Fresh(TextWorkspaces, TextTasks, TextLen)

NextText ==
    \/ Next
    \/ TypeSpace
    \/ Backspace

SpecText == InitText /\ [][NextText]_vars

(***************************************************************************)
(* SpecTree: build_task_hierarchy as a function.  self.tasks is any list   *)
(* of at most MaxTreeTasks tasks with distinct ids (the task at position k *)
(* has id k), any completion flags, any created_at in 1..MaxStamp and any  *)
(* acyclic parent links; a link may name the id MaxTreeTasks + 1, which no *)
(* task of the list has.                                                   *)
(***************************************************************************)
AbsentId == MaxTreeTasks + 1

TreeTask(k, completed, created_at, parent) ==
    [id             |-> k,
     title          |-> <<"a">>,
     completed      |-> completed,
     workspace_id   |-> 1,
     parent_task_id |-> IF parent = 0 THEN None ELSE Some(parent),
     created_at     |-> created_at]

\* The ids reached from id by following parent links at most n times.
RECURSIVE AncestorIds(_, _, _)
AncestorIds(tasks, id, n) ==
    LET IsIt(t) == t.id = id
        found == SelectSeq(tasks, IsIt)
    IN  IF n = 0 \/ found = <<>> \/ found[1].parent_task_id = None THEN {}
        ELSE {found[1].parent_task_id[1]}
                 \cup AncestorIds(tasks, found[1].parent_task_id[1], n - 1)

Acyclic(tasks) ==
    \A k \in DOMAIN tasks :
        tasks[k].id \notin AncestorIds(tasks, tasks[k].id, Len(tasks))

TaskLists ==
    UNION { { [k \in 1 .. n |-> TreeTask(k, done[k], stamp[k], parent[k])] :
                done \in [1 .. n -> BOOLEAN],
                stamp \in [1 .. n -> 1 .. MaxStamp],
                parent \in { f \in [1 .. n -> (0 .. n) \cup {AbsentId}] :
                                \A k \in 1 .. n : f[k] # k } }
          : n \in 0 .. MaxTreeTasks }

InitTree ==
    /\ app \in { [AppNew EXCEPT !.tasks = tasks] : tasks \in TaskLists }
    /\ Acyclic(app.tasks)
    /\ db = EmptyDb
    /\ loop = "tree"
    /\ last = Idle
    /\ walk = NoWalk
    /\ cmd = None
    /\ env = [max_workspaces |-> 0,
              max_tasks      |-> 0,
              max_len        |-> 0,
              max_cursor     |-> 0,
              clamps         |-> {FALSE},
              debugs         |-> {FALSE},
              steps          |-> {1},
              failures       |-> FALSE]

\* self.build_task_hierarchy(), run once ("built") and once more on the
\* tasks it was given the first time ("rebuilt").
BuildTree ==
    /\ loop \in {"tree", "built"}
    /\ app' = [app EXCEPT !.task_displays = Rebuilt(app)]
    /\ loop' = IF loop = "tree" THEN "built" ELSE "rebuilt"
    /\ last' = [Idle EXCEPT !.op = "build_task_hierarchy"]
    /\ UNCHANGED <<db, env, walk, cmd>>

NextTree == BuildTree

SpecTree == InitTree /\ [][NextTree]_vars

(***************************************************************************)
(* SpecNav: navigation over a Store that earlier sessions filled: up to    *)
(* NavWorkspaces workspaces with distinct names, each with up to NavTasks  *)
(* root tasks.  The keys are the navigation and focus keys of Normal mode. *)
(***************************************************************************)
RECURSIVE NavTaskRows(_, _)
NavTaskRows(count, k) ==
    IF k = 0 THEN <<>>
    ELSE LET before == NavTaskRows(count, k - 1)
         IN  before \o [j \in 1 .. count[k] |->
                 [id             |-> Len(before) + j,
                  title          |-> <<"a">>,
                  completed      |-> FALSE,
                  workspace_id   |-> k,
                  parent_task_id |-> None,
                  created_at     |-> Len(before) + j]]

NavDb(n, count) ==
    LET rows == NavTaskRows(count, n)
    IN  [workspaces        |-> [k \in 1 .. n |-> [id |-> k, name |-> [j \in 1 .. k |-> "a"]]],
         tasks             |-> rows,
         next_workspace_id |-> n + 1,
         next_task_id      |-> Len(rows) + 1,
         clock             |-> Len(rows) + 1]

InitNav ==
    /\ app = AppNew
    /\ db \in UNION { { NavDb(n, count) : count \in [1 .. n -> 0 .. NavTasks] }
                      : n \in 0 .. NavWorkspaces }
    /\ loop = "start"
    /\ last = Idle
    /\ walk = NoWalk
    /\ cmd = None
    /\ env = [max_workspaces |-> NavWorkspaces,
              max_tasks      |-> NavWorkspaces * NavTasks,
              max_len        |-> 0,
              max_cursor     |-> NavCursor,
              clamps         |-> BOOLEAN,
              debugs         |-> BOOLEAN,
              steps          |-> {1},
              failures       |-> FALSE]

NextNav ==
    \/ RunApp
    \/ KeyDown
    \/ KeyUp
    \/ KeyRight
    \/ KeyLeft
    \/ KeyTab

SpecNav == InitNav /\ [][NextNav]_vars

(***************************************************************************)
(* SpecSteps: the event loop statement by statement.  A key is read, its   *)
(* handler runs up to its first Store statement, every Store statement is  *)
(* a step of its own (the `.await` where the handler is suspended), and    *)
(* the handler returns to the loop.  cmd holds the handler in progress:    *)
(* the key, the App and the Store it started from, how its Store           *)
(* statements and its arithmetic turn out, and the statements done.        *)
(***************************************************************************)
\* Rows ever inserted into workspaces and into tasks.
StepWorkspaces == 1
StepTasks == 1

\* The keys that have an arm of their own in the mode of a, and "other" for
\* every key that has none (ui.rs:485-577).
Keys(a) ==
    IF a.input_mode = "Normal"
    THEN {"q", "Down", "Up", "Right", "Left", "Tab", "a", "A", "c", "r", "D", "?", "other"}
    ELSE IF a.input_mode \in {"Insert", "Creating"}
    THEN {"Enter", "Esc", "Backspace", "Char", "other"}
    ELSE IF a.input_mode = "DeleteConfirm" THEN {"y", "n", "other"}
    ELSE {"?", "other"}

\* `match app.input_mode { .. match key.code { .. } }`: the handler the key
\* runs on the App a, applied to the machine m.
KeyHandler(a, key, m) ==
    IF a.input_mode = "Normal"
    THEN CASE key = "q" -> quit(m)
           [] key = "Down" -> IF a.focus = "Workspaces" THEN next_workspace(m)
                              ELSE next_task(m)
           [] key = "Up" -> IF a.focus = "Workspaces" THEN previous_workspace(m)
                            ELSE previous_task(m)
           [] key = "Right" -> focus_tasks(m)
           [] key = "Left" -> focus_workspaces(m)
           [] key = "Tab" -> focus_other(m)
           [] key = "a" -> IF a.focus = "Tasks" THEN start_creating_subtask(m)
                           ELSE start_creating_task(m)
           [] key = "A" -> start_creating_task(m)
           [] key = "c" -> toggle_current_task_completion(m)
           [] key = "r" -> start_rename(m)
           [] key = "D" -> start_delete_confirm(m)
           [] key = "?" -> show_help(m)
           [] OTHER -> ignored(m)
    ELSE IF a.input_mode = "Insert"
    THEN CASE key = "Enter" -> finish_rename(m)
           [] key = "Esc" -> cancel_rename(m)
           [] key = "Backspace" -> pop(m)
           [] key = "Char" -> push_letter(m)
           [] OTHER -> ignored(m)
    ELSE IF a.input_mode = "Creating"
    THEN CASE key = "Enter" -> finish_creating(m)
           [] key = "Esc" -> cancel_creating(m)
           [] key = "Backspace" -> pop(m)
           [] key = "Char" -> push_letter(m)
           [] OTHER -> ignored(m)
    ELSE IF a.input_mode = "DeleteConfirm"
    THEN CASE key = "y" -> confirm_delete(m)
           [] key = "n" -> cancel_delete_confirm(m)
           [] OTHER -> ignored(m)
    ELSE CASE key = "?" -> hide_help(m)
           [] OTHER -> ignored(m)

\* The name of that handler, as `last` reports it.
KeyOp(a, key) ==
    IF key = "other" THEN "ignored"
    ELSE IF key = "Backspace" THEN "pop"
    ELSE IF key = "Char" THEN "push"
    ELSE IF a.input_mode = "Normal"
    THEN CASE key = "q" -> "quit"
           [] key = "Down" -> IF a.focus = "Workspaces" THEN "next_workspace"
                              ELSE "next_task"
           [] key = "Up" -> IF a.focus = "Workspaces" THEN "previous_workspace"
                            ELSE "previous_task"
           [] key \in {"Right", "Left", "Tab"} -> "focus"
           [] key = "a" -> IF a.focus = "Tasks" THEN "start_creating_subtask"
                           ELSE "start_creating_task"
           [] key = "A" -> "start_creating_task"
           [] key = "c" -> "toggle_current_task_completion"
           [] key = "r" -> "start_rename"
           [] key = "D" -> "start_delete_confirm"
           [] OTHER -> "show_help"
    ELSE IF a.input_mode = "Insert"
    THEN IF key = "Enter" THEN "finish_rename" ELSE "cancel_rename"
    ELSE IF a.input_mode = "Creating"
    THEN IF key = "Enter" THEN "finish_creating" ELSE "cancel_creating"
    ELSE IF a.input_mode = "DeleteConfirm"
    THEN IF key = "y" THEN "confirm_delete" ELSE "cancel_delete_confirm"
    ELSE "hide_help"

\* The handler of the call c run with the Store statement number `fuel`
\* failing (0: none fails).  "run_app" is App::new followed by
\* load_workspaces.
Ran(c, fuel) ==
    LET m == Machine(c.a, c.db, fuel, c.rev, c.debug, c.dt)
    IN  IF c.key = "run_app" THEN load_workspaces(m) ELSE KeyHandler(c.a, c.key, m)

\* The machine the handler c ends in.  c.runs[k] is the handler run with
\* statement k failing: what it has done when it reaches statement k.
Final(c) == c.runs[c.fuel]

\* The Store statements the handler c executes, the failing one included.
Statements(c) == Final(c).calls

\* The handlers a key read on the drawn App a can start, over the Store
\* statement that fails, the order of rows with equal keys, the build and
\* the clock.
Started(a, key) ==
    UNION { LET call == [key |-> key, a |-> a, db |-> db, fuel |-> 0, rev |-> FALSE,
                         debug |-> debug, dt |-> dt, done |-> 0]
                free == Ran(call, 0)
                fuels == IF env.failures THEN 0 .. free.calls ELSE {0}
                revs == IF HasEqualKeys(db) \/ HasEqualKeys(free.db)
                        THEN BOOLEAN ELSE {FALSE}
            IN  {[key |-> key, a |-> a, db |-> db, fuel |-> fuel, rev |-> rev,
                  debug |-> debug, dt |-> dt, done |-> 0,
                  runs |-> [k \in 0 .. free.calls |->
                               Ran([call EXCEPT !.rev = rev], k)]]
                 : fuel \in fuels, rev \in revs}
          : debug \in (IF key \in {"Down", "Up"} THEN env.debugs ELSE {FALSE}),
            dt \in (IF key = "Enter" /\ a.input_mode = "Creating" THEN env.steps ELSE {0}) }

\* A loop that starts the handler and goes on to the next key at once.
HandlerSpawned == "running"

\* `handler(..).await?` in the body of the loop (ui.rs:488-572): the loop is
\* suspended until the handler has returned.
HandlerAwaited == "handling"

\* run_app: App::new, then load_workspaces is called.
StepStart ==
    /\ loop \in {"start", "ended"}
    /\ \E c \in Started(AppNew, "run_app") :
           /\ WithinBounds(Final(c))
           /\ cmd' = Some(c)
    /\ app' = AppNew
    /\ loop' = HandlerAwaited
    /\ UNCHANGED <<db, last, env, walk>>

\* terminal.draw, event::read, and the call of the key's handler.
StepRead ==
    /\ loop = "running"
    /\ \E a \in Drawn : \E key \in Keys(a) : \E c \in Started(a, key) :
           /\ WithinBounds(Final(c))
           /\ cmd' = Some(c)
           /\ app' = a
    /\ loop' = HandlerAwaited
    /\ UNCHANGED <<db, last, env, walk>>

\* The next Store statement of the handler in progress is executed and the
\* handler is resumed: it runs on to its next Store statement, or to its
\* end when this was its last one or when the statement returned Err.
StepStatement ==
    /\ cmd # None
    /\ cmd[1].done < Statements(cmd[1])
    /\ LET c == cmd[1]
           k == c.done + 1
           m == IF k < Statements(c) THEN c.runs[k + 1] ELSE Final(c)
       IN  /\ app' = m.app
           /\ db' = m.db
           /\ cmd' = Some([c EXCEPT !.done = k])
    /\ UNCHANGED <<loop, last, env, walk>>

\* The handler in progress returns to the loop.
StepReturn ==
    /\ cmd # None
    /\ cmd[1].done = Statements(cmd[1])
    /\ LET c == cmd[1]
           m == Final(c)
       IN  /\ app' = m.app
           /\ db' = m.db
           /\ loop' = IF Result(m) = "ok" THEN "running" ELSE "ended"
           /\ last' = Report(IF c.key = "run_app" THEN "run_app" ELSE KeyOp(c.a, c.key),
                             c.a, m)
    /\ cmd' = None
    /\ UNCHANGED <<env, walk>>

InitSteps == Fresh(StepWorkspaces, StepTasks, MaxLen)

NextSteps ==
    \/ StepStart
    \/ StepRead
    \/ StepStatement
    \/ StepReturn

SpecSteps == InitSteps /\ [][NextSteps]_vars

(***************************************************************************)
(* Properties of the display sequence (specification SpecTree).            *)
(***************************************************************************)
Rows == app.task_displays

Built == last.op = "build_task_hierarchy"

\* The rows of the display at depth 0, in emission order.
RootRows ==
    LET AtTop(r) == r.level = 0
    IN  SelectSeq(Rows, AtTop)

\* The rows of the direct children of task id, in emission order.
ChildRows(id) ==
    LET IsChild(r) == r.task.parent_task_id = Some(id)
    IN  SelectSeq(Rows, IsChild)

\* Incomplete before completed, and created_at non-decreasing within each.
SiblingsOrdered(rows) ==
    \A i, j \in DOMAIN rows :
        i < j =>
            /\ rows[i].task.completed => rows[j].task.completed
            /\ rows[i].task.completed = rows[j].task.completed
                   => rows[i].task.created_at <= rows[j].task.created_at

\* C1: among the depth-0 rows, and among the direct children of any emitted
\* task, every incomplete task comes before every completed one, and within
\* each of the two groups created_at is non-decreasing in emission order.
C1_SiblingOrder ==
    Built =>
        /\ SiblingsOrdered(RootRows)
        /\ \A k \in DOMAIN Rows : SiblingsOrdered(ChildRows(Rows[k].task.id))

\* C1's case: three roots, the two incomplete ones emitted against their
\* order in the list because of their created_at, and a completed one that
\* is older than an incomplete one emitted last.
C1_Witness ==
    /\ Built
    /\ Len(Rows) = 3
    /\ \A k \in 1 .. 3 : Rows[k].level = 0
    /\ ~Rows[1].task.completed /\ ~Rows[2].task.completed /\ Rows[3].task.completed
    /\ Rows[1].task.id > Rows[2].task.id
    /\ Rows[1].task.created_at < Rows[2].task.created_at
    /\ Rows[3].task.created_at < Rows[2].task.created_at

\* The positions of the rows whose task has task id among its ancestors.
DescendantRows(id) ==
    {j \in DOMAIN Rows : id \in AncestorIds(app.tasks, Rows[j].task.id, Len(app.tasks))}

\* C2: the display is a pre-order traversal: the descendants of every
\* emitted task fill one block of rows right after it, a child's level is
\* its parent's level + 1, a root's level is 0, and a completed child of an
\* incomplete root comes before every completed root.
C2_PreOrder ==
    Built =>
        \A k \in DOMAIN Rows :
            LET id == Rows[k].task.id
                below == DescendantRows(id)
            IN  /\ below = (k + 1) .. (k + Cardinality(below))
                /\ Rows[k].task.parent_task_id = None => Rows[k].level = 0
                /\ \A j \in DOMAIN Rows :
                       Rows[j].task.parent_task_id = Some(id)
                           => Rows[j].level = Rows[k].level + 1
                /\ \A j \in DOMAIN Rows :
                       (/\ Rows[k].task.parent_task_id = None
                        /\ ~Rows[k].task.completed
                        /\ Rows[j].task.parent_task_id = Some(id)
                        /\ Rows[j].task.completed)
                           => \A r \in DOMAIN Rows :
                                  (Rows[r].level = 0 /\ Rows[r].task.completed) => j < r

\* C2's case: an incomplete root, then its completed child at level 1, then
\* a completed root that is older than that child.
C2_Witness ==
    /\ Built
    /\ Len(Rows) = 3
    /\ Rows[1].level = 0 /\ ~Rows[1].task.completed
    /\ Rows[2].level = 1 /\ Rows[2].task.completed
    /\ Rows[2].task.parent_task_id = Some(Rows[1].task.id)
    /\ Rows[3].level = 0 /\ Rows[3].task.completed
    /\ Rows[3].task.created_at < Rows[2].task.created_at

\* Whether the list holds a task with this id.
Fetched(id) == \E k \in DOMAIN app.tasks : app.tasks[k].id = id

\* A task whose parent link names a task that is not in the list.
IsOrphan(t) == t.parent_task_id # None /\ ~Fetched(t.parent_task_id[1])

Emitted(id) == \E k \in DOMAIN Rows : Rows[k].task.id = id

\* C3: a task whose parent is not in the fetched set is emitted as a root,
\* at level 0.
C3_OrphanIsRoot ==
    Built =>
        \A k \in DOMAIN app.tasks :
            IsOrphan(app.tasks[k])
                => \E r \in DOMAIN Rows :
                       Rows[r].task = app.tasks[k] /\ Rows[r].level = 0

\* C4: a task whose parent is not in the fetched set, and every task below
\* it in the parent chain, is in no row of the display.
C4_OrphanDropped ==
    Built =>
        \A k \in DOMAIN app.tasks :
            LET t == app.tasks[k]
                above == AncestorIds(app.tasks, t.id, Len(app.tasks))
            IN  (\/ IsOrphan(t)
                 \/ \E j \in DOMAIN app.tasks :
                        app.tasks[j].id \in above /\ IsOrphan(app.tasks[j]))
                    => ~Emitted(t.id)

\* C4's case: the list holds an orphan, a child of that orphan, and a task
\* that is emitted.
C4_Witness ==
    /\ Built
    /\ Rows # <<>>
    /\ \E k, j \in DOMAIN app.tasks :
           /\ IsOrphan(app.tasks[k])
           /\ app.tasks[j].parent_task_id = Some(app.tasks[k].id)
           /\ ~Emitted(app.tasks[k].id)
           /\ ~Emitted(app.tasks[j].id)

(***************************************************************************)
(* Properties of the cursors and of Store failures (specifications Spec    *)
(* and SpecDeep).                                                          *)
(***************************************************************************)
\* The last iteration ran handler op to its end and its Store mutation was made.
Succeeded(op) == last.op = op /\ last.res = "ok" /\ last.did

\* C5: after a confirmed task delete succeeded with the task cursor at
\* index i, the task cursor is min(i, L' - 1) over the rebuilt display of
\* length L' > 0, and None when the rebuilt display is empty.
C5_DeleteTaskClamp ==
    (Succeeded("confirm_delete") /\ app.focus = "Tasks") =>
        app.task_state =
            IF Len(app.task_displays) = 0 THEN None
            ELSE Some(Min(last.task_cursor[1], Len(app.task_displays) - 1))

\* C5's case: the deleted task had descendants in the display, so the display
\* lost more than one row, and the old index is past the end of what is left.
C5_Witness ==
    /\ Succeeded("confirm_delete")
    /\ app.focus = "Tasks"
    /\ last.rows - Len(app.task_displays) > 1
    /\ Len(app.task_displays) > 0
    /\ last.task_cursor[1] >= Len(app.task_displays)
    /\ app.task_state = Some(Len(app.task_displays) - 1)

\* The sequence the focused panel shows.
FocusedLen == IF app.focus = "Workspaces" THEN Len(app.workspaces) ELSE Len(app.task_displays)

\* The cursor of the focused panel that the last handler found.
FocusedCursorBefore ==
    IF app.focus = "Workspaces" THEN last.workspace_cursor ELSE last.task_cursor

\* C6: after a successful create commit or rename commit, the cursor over
\* the affected sequence keeps its old index when that index is within the
\* bounds of the reloaded sequence.
C6_CommitKeepsCursor ==
    ((Succeeded("finish_creating") \/ Succeeded("finish_rename"))
         /\ FocusedCursorBefore # None)
        => IF FocusedCursorBefore[1] < FocusedLen
           THEN FocusedCursor(app) = FocusedCursorBefore
           ELSE TRUE

\* C7: after toggle_current_task_completion succeeded with the task cursor
\* at index i, the task cursor is index i.
C7_ToggleKeepsIndex ==
    Succeeded("toggle_current_task_completion") => app.task_state = last.task_cursor

\* C7's case: a toggle with the cursor below the first row, where the
\* reload's reset to 0 would show.
C7_Witness ==
    /\ Succeeded("toggle_current_task_completion")
    /\ last.task_cursor # None
    /\ last.task_cursor[1] > 0
    /\ app.task_state = last.task_cursor

\* The toggled task is in the rebuilt display, in another row than the one
\* the cursor was on.
ToggleMovedRow ==
    /\ Succeeded("toggle_current_task_completion")
    /\ last.task_cursor # None
    /\ \E k \in DOMAIN app.task_displays :
           /\ app.task_displays[k].task.id = last.target
           /\ k - 1 # last.task_cursor[1]

\* C8 as stated: when the toggle moved the task's row, the task cursor
\* afterwards is on the row of the toggled task.
C8_CursorFollowsTask ==
    ToggleMovedRow =>
        /\ SelectedTaskDisplay(app) # None
        /\ SelectedTaskDisplay(app)[1].task.id = last.target

\* C8 amended: when the toggle moved the task's row, the task cursor keeps
\* its index, and the row under it holds another task than the toggled one.
C8_CursorKeepsRow ==
    ToggleMovedRow =>
        /\ app.task_state = last.task_cursor
        /\ SelectedTaskDisplay(app) # None
        /\ SelectedTaskDisplay(app)[1].task.id # last.target

\* C8's case: the first of two rows was toggled to completed and is now the
\* second row, behind the task that was second.
C8_Witness ==
    /\ ToggleMovedRow
    /\ Len(app.task_displays) = 2
    /\ last.task_cursor = Some(0)
    /\ app.task_displays[2].task.id = last.target
    /\ app.task_displays[2].task.completed

\* A Store call failed while a key's handler ran.
CommandFailed == last.res = "err" /\ last.op # "run_app"

\* C9: when a Store call fails while a command is handled, workspaces,
\* tasks, task_displays and both cursors are what they were before the
\* command began.
C9_FailureLeavesState ==
    CommandFailed =>
        /\ app.workspaces = last.pre[1].workspaces
        /\ app.tasks = last.pre[1].tasks
        /\ app.task_displays = last.pre[1].task_displays
        /\ app.workspace_state = last.pre[1].workspace_state
        /\ app.task_state = last.pre[1].task_state

\* C10: a Store call that fails while a command is handled does not end the
\* event loop, and the loop ends only by the quit key.
C10_FailureNotFatal ==
    /\ CommandFailed => loop = "running"
    /\ (loop = "ended" /\ last.op # "run_app" /\ last.res # "panic") => last.op = "quit"

(***************************************************************************)
(* Properties of navigation (specification SpecNav).                       *)
(***************************************************************************)
\* A handler run on the current App and Store, with no Store call failing.
Now(debug) == Machine(app, db, 0, FALSE, debug, 0)

RECURSIVE NextTaskTimes(_, _)
NextTaskTimes(m, n) == IF n = 0 THEN m ELSE NextTaskTimes(next_task(m), n - 1)

RECURSIVE PreviousTaskTimes(_, _)
PreviousTaskTimes(m, n) == IF n = 0 THEN m ELSE PreviousTaskTimes(previous_task(m), n - 1)

RECURSIVE NextWorkspaceTimes(_, _)
NextWorkspaceTimes(m, n) ==
    IF n = 0 THEN m ELSE NextWorkspaceTimes(next_workspace(m), n - 1)

RECURSIVE PreviousWorkspaceTimes(_, _)
PreviousWorkspaceTimes(m, n) ==
    IF n = 0 THEN m ELSE PreviousWorkspaceTimes(previous_workspace(m), n - 1)

\* The cursor is Some(i) with i an index of a sequence of length len.
InBounds(cursor, len) == cursor # None /\ cursor[1] < len

\* C11: on a non-empty sequence of length L with the cursor at an in-bounds
\* index i, L advances return the cursor to i (and so do L retreats), and
\* advance then retreat, and retreat then advance, leave the cursor at i;
\* for the task cursor with next_task / previous_task and for the workspace
\* cursor with next_workspace / previous_workspace.
C11_AdvanceRetreat ==
    loop = "running" =>
        \A debug \in BOOLEAN :
            /\ InBounds(app.task_state, Len(app.task_displays)) =>
                   /\ NextTaskTimes(Now(debug), Len(app.task_displays)).app.task_state
                          = app.task_state
                   /\ PreviousTaskTimes(Now(debug), Len(app.task_displays)).app.task_state
                          = app.task_state
                   /\ previous_task(next_task(Now(debug))).app.task_state = app.task_state
                   /\ next_task(previous_task(Now(debug))).app.task_state = app.task_state
            /\ InBounds(app.workspace_state, Len(app.workspaces)) =>
                   /\ NextWorkspaceTimes(Now(debug), Len(app.workspaces)).app.workspace_state
                          = app.workspace_state
                   /\ PreviousWorkspaceTimes(Now(debug), Len(app.workspaces)).app.workspace_state
                          = app.workspace_state
                   /\ previous_workspace(next_workspace(Now(debug))).app.workspace_state
                          = app.workspace_state
                   /\ next_workspace(previous_workspace(Now(debug))).app.workspace_state
                          = app.workspace_state

\* C11's case: next_task has just wrapped from the last of three rows to
\* the first, with the workspace cursor on the second of three workspaces.
C11_Witness ==
    /\ last.op = "next_task"
    /\ last.res = "ok"
    /\ Len(app.task_displays) = 3
    /\ app.task_state = Some(0)
    /\ Len(app.workspaces) = 3
    /\ app.workspace_state = Some(1)

\* C12: on an empty sequence advance and retreat leave the cursor at None:
\* after next_task or previous_task on an empty task display the task cursor
\* is None, and after next_workspace or previous_workspace on an empty
\* workspace list the workspace cursor is None.
C12_EmptyStaysNone ==
    /\ (/\ last.op \in {"next_task", "previous_task"}
        /\ last.res = "ok"
        /\ app.task_displays = <<>>)
           => app.task_state = None
    /\ (/\ last.op \in {"next_workspace", "previous_workspace"}
        /\ last.res = "ok"
        /\ app.workspaces = <<>>)
           => app.workspace_state = None

(***************************************************************************)
(* Properties of the commands (specifications Spec and SpecText).          *)
(***************************************************************************)
\* The displays the tasks of workspace_id flatten to, over the orders the
\* Store may return tasks with equal created_at in.
Flattenings(workspace_id) ==
    {build_task_hierarchy(get_tasks_for_workspace(db, workspace_id, rev)) : rev \in BOOLEAN}

\* The workspace switch of the last iteration ran to its end.
Switched == last.op \in {"next_workspace", "previous_workspace"} /\ last.res = "ok"

\* C13: after next_workspace or previous_workspace succeeded, the task
\* display is the flattening of the tasks of the workspace now selected,
\* and the task cursor is 0 when the display is non-empty and None when it
\* is empty, whatever it was before.
C13_SwitchResets ==
    Switched =>
        /\ SelectedWorkspace(app) # None =>
               app.task_displays \in Flattenings(SelectedWorkspace(app)[1].id)
        /\ app.task_state = IF app.task_displays = <<>> THEN None ELSE Some(0)

\* C14: after a confirmed workspace delete succeeded with the workspace
\* cursor at index i, the workspace cursor is min(i, L' - 1) over the L' > 0
\* workspaces that remain, and None when none remains.
C14_DeleteWorkspaceClamp ==
    (Succeeded("confirm_delete") /\ app.focus = "Workspaces") =>
        app.workspace_state =
            IF Len(app.workspaces) = 0 THEN None
            ELSE Some(Min(last.workspace_cursor[1], Len(app.workspaces) - 1))

\* The task in the display row under the cursor that the handler of the
\* step found (the draw before the key leaves the rows as they are).
RowTaskBefore == app.task_displays[last'.task_cursor[1] + 1].task

InStore(d, id) == \E k \in DOMAIN d.tasks : d.tasks[k].id = id

\* The tasks table of d without the task id.
WithoutTask(d, id) ==
    LET Other(t) == t.id # id
    IN  SelectSeq(d.tasks, Other)

\* C15: a confirmed delete in Tasks focus removes from the store exactly one
\* task, the one in the display row under the cursor; every other task,
\* the tasks whose parent_task_id pointed at it included, stays as it was.
C15_DeleteTaskOnly ==
    [][(last'.op = "confirm_delete" /\ last'.did /\ app.focus = "Tasks") =>
           /\ InStore(db, RowTaskBefore.id)
           /\ last'.target = RowTaskBefore.id
           /\ db'.tasks = WithoutTask(db, RowTaskBefore.id)
           /\ db'.workspaces = db.workspaces]_vars

\* A text that is empty or holds nothing but spaces.
Blank(text) == \A k \in DOMAIN text : text[k] = " "

\* The row under the task cursor that the handler of the step found, when
\* its Store mutation was made.
RowBefore ==
    IF last'.task_cursor = None THEN None
    ELSE Get(app.task_displays, last'.task_cursor[1])

\* The step committed a create in Tasks focus after the subtask key, with
\* text that is not empty after trimming, while a workspace is active.
SubtaskCommit ==
    /\ last'.op = "finish_creating"
    /\ app.focus = "Tasks"
    /\ app.creating_subtask
    /\ ~Blank(app.input_buffer)
    /\ ActiveWorkspace(app) # None

LeftMode == {[a EXCEPT !.input_mode = "Normal", !.input_buffer = <<>>] : a \in Drawn}

\* C17: committing a create whose text is empty or only whitespace makes no
\* Store call and raises no error; the store, the workspaces, tasks, display
\* and both cursors are unchanged, the mode is Normal and the buffer empty.
C17_EmptyCreateCancels ==
    [][(last'.op = "finish_creating" /\ Blank(app.input_buffer)) =>
           /\ last'.res = "ok"
           /\ last'.calls = 0
           /\ db' = db
           /\ app' \in LeftMode]_vars

\* C17's case: a create was committed with a buffer of spaces, in a session
\* that has a workspace with a task, in each of the two panels.
C17_Witness ==
    /\ last.op = "finish_creating"
    /\ last.text = <<" ", " ">>
    /\ last.res = "ok"
    /\ last.calls = 0
    /\ app.input_mode = "Normal"
    /\ app.task_displays # <<>>
    /\ Len(db.workspaces) = 1
    /\ Len(db.tasks) = 1

\* C18: in every reachable store state, every workspace name and every task
\* title is non-empty after trimming whitespace.
C18_NamesNotBlank ==
    /\ \A k \in DOMAIN db.workspaces : ~Blank(db.workspaces[k].name)
    /\ \A k \in DOMAIN db.tasks : ~Blank(db.tasks[k].title)

\* The tasks table of d with the completion flag of the task id negated
\* and nothing else touched.
WithFlipped(d, id) ==
    [k \in DOMAIN d.tasks |->
        IF d.tasks[k].id = id
        THEN [d.tasks[k] EXCEPT !.completed = ~d.tasks[k].completed]
        ELSE d.tasks[k]]

\* C19: toggle_current_task_completion flips the completion flag of exactly
\* the task in the row under the task cursor and of no other task; when the
\* focus is Workspaces it makes no Store call and changes nothing.
C19_ToggleOnlyRow ==
    [][(last'.op = "toggle_current_task_completion") =>
           /\ (app.focus = "Tasks" /\ last'.did) =>
                  /\ InStore(db, RowTaskBefore.id)
                  /\ last'.target = RowTaskBefore.id
                  /\ db'.tasks = WithFlipped(db, RowTaskBefore.id)
                  /\ db'.workspaces = db.workspaces
           /\ app.focus = "Workspaces" =>
                  /\ last'.calls = 0
                  /\ db' = db
                  /\ app' \in Drawn]_vars

\* Every task of d whose parent_task_id names a task of d is in that
\* task's workspace.
ChildInParentWorkspace(d) ==
    \A k, j \in DOMAIN d.tasks :
        d.tasks[k].parent_task_id = Some(d.tasks[j].id) =>
            d.tasks[k].workspace_id = d.tasks[j].workspace_id

\* C20: no step changes the workspace_id of a task that is in the store
\* before and after it, and in every store state a task whose parent is
\* present has the workspace_id of that parent.
C20_WorkspaceFixed ==
    [][/\ \A k \in DOMAIN db.tasks : \A j \in DOMAIN db'.tasks :
              db.tasks[k].id = db'.tasks[j].id =>
                  db.tasks[k].workspace_id = db'.tasks[j].workspace_id
       /\ ChildInParentWorkspace(db')]_vars

\* C20's case: with two workspaces in the store, a subtask was just created
\* under a parent of the workspace created second, and both are in it.
C20_Witness ==
    /\ Succeeded("finish_creating")
    /\ Len(db.workspaces) = 2
    /\ \E k, j \in DOMAIN db.tasks :
           /\ db.tasks[k].id = last.target
           /\ db.tasks[k].parent_task_id = Some(db.tasks[j].id)
           /\ db.tasks[k].workspace_id = db.tasks[j].workspace_id
           /\ \E w \in DOMAIN db.workspaces :
                  db.workspaces[w].id < db.tasks[k].workspace_id

(***************************************************************************)
(* Claims about delete_workspace (specification Spec).                     *)
(***************************************************************************)
\* The step is a confirm_delete of the workspace panel.
DeletesWorkspace == last'.op = "confirm_delete" /\ app.focus = "Workspaces"

\* The workspace under the cursor that the handler of the step found.
WorkspaceBefore == app.workspaces[last'.workspace_cursor[1] + 1]

\* C21: after delete_workspace(w) succeeded, the store holds neither the
\* workspace w nor a task whose workspace_id is w, and the tasks of every
\* other workspace, like the other workspaces, are as they were.
C21_DeleteWorkspaceCascades ==
    [][(DeletesWorkspace /\ last'.did) =>
           LET w == last'.target
               Other(t) == t.workspace_id # w
               OtherWorkspace(x) == x.id # w
           IN  /\ w = WorkspaceBefore.id
               /\ \A k \in DOMAIN db'.workspaces : db'.workspaces[k].id # w
               /\ \A k \in DOMAIN db'.tasks : db'.tasks[k].workspace_id # w
               /\ db'.tasks = SelectSeq(db.tasks, Other)
               /\ db'.workspaces = SelectSeq(db.workspaces, OtherWorkspace)]_vars

\* C21's case: a workspace that had tasks in its display was deleted, and
\* the other workspace and its task are still in the store.
C21_Witness ==
    /\ Succeeded("confirm_delete")
    /\ app.focus = "Workspaces"
    /\ last.rows > 0
    /\ Len(db.workspaces) = 1
    /\ Len(db.tasks) = 1
    /\ db.tasks[1].workspace_id = db.workspaces[1].id
    /\ db.workspaces[1].id # last.target

\* C22: delete_workspace is all or nothing: when it fails, at whichever of
\* its statements, the store is as it was before the call.
C22_DeleteWorkspaceAtomic ==
    [][(DeletesWorkspace /\ last'.res = "err" /\ ~last'.did) => db' = db]_vars

(***************************************************************************)
(* Claims about the input modes (specification SpecText, which has every   *)
(* key of every mode).                                                     *)
(***************************************************************************)
\* The step handles one key event read in a mode other than Normal.
KeyOutsideNormal == loop = "running" /\ app.input_mode # "Normal"

\* The handlers of the terminal keys: confirm, cancel, yes, no, dismiss.
TerminalOps ==
    {"finish_creating", "cancel_creating", "finish_rename", "cancel_rename",
     "confirm_delete", "cancel_delete_confirm", "hide_help"}

\* C23: from Creating, Insert, DeleteConfirm and Help, one key event leaves
\* the mode as it is or moves to Normal, never to another mode; and a
\* terminal key whose handling succeeded ends in Normal.
C23_ModesDoNotNest ==
    [][KeyOutsideNormal =>
           /\ app'.input_mode \in {app.input_mode, "Normal"}
           /\ (last'.op \in TerminalOps /\ last'.res = "ok") =>
                  app'.input_mode = "Normal"]_vars

\* C23's case: a delete was confirmed, the Store deleted the row, and the
\* session is back in Normal mode.
C23_Witness ==
    /\ Succeeded("confirm_delete")
    /\ app.input_mode = "Normal"
    /\ loop = "running"

\* The handlers a key can reach in each mode other than Normal.
ModeOps(mode) ==
    IF mode = "Creating" THEN {"finish_creating", "cancel_creating", "push", "pop", "ignored"}
    ELSE IF mode = "Insert" THEN {"finish_rename", "cancel_rename", "push", "pop", "ignored"}
    ELSE IF mode = "DeleteConfirm" THEN {"confirm_delete", "cancel_delete_confirm", "ignored"}
    ELSE {"hide_help", "ignored"}

\* The commits of the modes: the only handlers that call the Store.
CommitOps == {"finish_creating", "finish_rename", "confirm_delete"}

\* The Apps that differ from a drawn frame in nothing but the input buffer,
\* which has one character more or one less (none less when it was empty).
BufferEdited ==
    {[a EXCEPT !.input_buffer = buffer] :
        a \in Drawn,
        buffer \in {Append(app.input_buffer, c) : c \in TypedChars}
                   \cup {IF app.input_buffer = <<>> THEN <<>>
                         ELSE SubSeq(app.input_buffer, 1, Len(app.input_buffer) - 1)}}

\* C24: outside Normal mode a key reaches only the handlers of its mode;
\* short of the mode's commit it neither quits nor touches the store, the
\* focus or a cursor; a character or backspace key in Creating and Insert
\* changes only the input buffer; and any other key of DeleteConfirm and
\* Help leaves the whole state as drawn.
C24_ModeKeysOnly ==
    [][KeyOutsideNormal =>
           /\ last'.op \in ModeOps(app.input_mode)
           /\ last'.op \notin CommitOps =>
                  /\ db' = db
                  /\ loop' = "running"
                  /\ last'.calls = 0
                  /\ app'.focus = app.focus
                  /\ \E a \in Drawn :
                         /\ app'.workspace_state = a.workspace_state
                         /\ app'.task_state = a.task_state
                         /\ app'.selected_workspace = a.selected_workspace
                         /\ app'.task_displays = a.task_displays
                         /\ app'.workspaces = a.workspaces
           /\ last'.op \in {"push", "pop"} => app' \in BufferEdited
           /\ last'.op = "ignored" => app' \in Drawn]_vars

\* C24's case: a space was typed into a rename buffer that already held the
\* name, with a task under the cursor.
C24_Witness ==
    /\ last.op = "push"
    /\ app.input_mode = "Insert"
    /\ app.input_buffer = <<"a", " ">>
    /\ app.focus = "Tasks"
    /\ app.task_displays # <<>>
    /\ loop = "running"

(***************************************************************************)
(* SpecWalk: build_task_hierarchy call by call.  self.tasks is any list of *)
(* at most MaxTreeTasks tasks with distinct ids and any parent links, a    *)
(* task that is its own parent and longer cycles included.  A frame of     *)
(* walk.stack is a `for` loop that is still running: the level it passes   *)
(* to add_task_and_children and the tasks it has not reached yet.  The     *)
(* calls follow each other without waiting for anything, so the walk goes  *)
(* on as long as a step is possible.                                       *)
(***************************************************************************)
\* The rows a walk may push before the model stops following it.
MaxWalkRows == 2 * MaxTreeTasks

LinkedLists ==
    UNION { { [k \in 1 .. n |-> TreeTask(k, done[k], stamp[k], parent[k])] :
                done \in [1 .. n -> BOOLEAN],
                stamp \in [1 .. n -> 1 .. MaxStamp],
                parent \in [1 .. n -> (0 .. n) \cup {AbsentId}] }
          : n \in 0 .. MaxTreeTasks }

InitWalk ==
    /\ app \in { [AppNew EXCEPT !.tasks = tasks] : tasks \in LinkedLists }
    /\ db = EmptyDb
    /\ loop = "walk"
    /\ last = Idle
    /\ walk = NoWalk
    /\ cmd = None
    /\ env = [max_workspaces |-> 0,
              max_tasks      |-> 0,
              max_len        |-> 0,
              max_cursor     |-> 0,
              clamps         |-> {FALSE},
              debugs         |-> {FALSE},
              steps          |-> {1},
              failures       |-> FALSE]

\* The tasks the two loops over the roots visit, in order (ui.rs:106-128).
RootsInOrder(tasks) ==
    LET NotDoneRoot(t) == ~t.completed /\ IsRootTask(tasks, t)
        DoneRoot(t) == t.completed /\ IsRootTask(tasks, t)
    IN  sort_by_created_at(SelectSeq(tasks, NotDoneRoot))
            \o sort_by_created_at(SelectSeq(tasks, DoneRoot))

\* The tasks the two loops over the children of `task` visit, in order
\* (ui.rs:145-163).
ChildrenInOrder(all_tasks, task) ==
    LET children == sort_by_created_at(ChildrenOf(all_tasks, task))
        NotDone(t) == ~t.completed
        Done(t) == t.completed
    IN  SelectSeq(children, NotDone) \o SelectSeq(children, Done)

\* build_task_hierarchy up to its first loop (ui.rs:103-120).
WalkBegin ==
    /\ loop = "walk"
    /\ app' = [app EXCEPT !.task_displays = clear(@)]
    /\ walk' = [stack |-> <<[level |-> 0, pending |-> RootsInOrder(app.tasks)]>>,
                index |-> 0]
    /\ loop' = "walking"
    /\ last' = [Idle EXCEPT !.op = "build_task_hierarchy"]
    /\ UNCHANGED <<db, env, cmd>>

\* The innermost loop calls add_task_and_children on its next task: the row
\* is pushed, index incremented, and the loops over its children start
\* (ui.rs:137-163).
WalkCall ==
    /\ loop = "walking"
    /\ walk.stack # <<>>
    /\ walk.stack[Len(walk.stack)].pending # <<>>
    /\ Len(app.task_displays) < MaxWalkRows
    /\ LET depth == Len(walk.stack)
           top == walk.stack[depth]
           task == Head(top.pending)
       IN  /\ app' = [app EXCEPT !.task_displays =
                          Append(@, [task  |-> task,
                                     level |-> top.level,
                                     index |-> walk.index])]
           /\ walk' = [stack |-> Append(
                                    [walk.stack EXCEPT ![depth].pending = Tail(@)],
                                    [level   |-> ChildLevel(top.level),
                                     pending |-> ChildrenInOrder(app.tasks, task)]),
                       index |-> walk.index + 1]
    /\ UNCHANGED <<db, loop, last, env, cmd>>

\* The innermost loop has no task left: add_task_and_children returns.
WalkReturn ==
    /\ loop = "walking"
    /\ walk.stack # <<>>
    /\ walk.stack[Len(walk.stack)].pending = <<>>
    /\ walk' = [walk EXCEPT !.stack = SubSeq(@, 1, Len(@) - 1)]
    /\ UNCHANGED <<app, db, loop, last, env, cmd>>

\* The loops over the roots are done: build_task_hierarchy returns.
WalkEnd ==
    /\ loop = "walking"
    /\ walk.stack = <<>>
    /\ loop' = "walked"
    /\ UNCHANGED <<app, db, last, env, walk, cmd>>

NextWalk ==
    \/ WalkBegin
    \/ WalkCall
    \/ WalkReturn
    \/ WalkEnd

SpecWalk == InitWalk /\ [][NextWalk]_vars /\ WF_vars(NextWalk)

(***************************************************************************)
(* Claims about rebuilding the display (specification SpecTree).           *)
(***************************************************************************)
\* C25: a second run of build_task_hierarchy on the unchanged task list
\* leaves the display as the first run built it: the same rows, levels and
\* indices in the same order.
C25_RebuildSame ==
    [][(loop = "built" /\ loop' = "rebuilt") =>
           /\ app'.tasks = app.tasks
           /\ app'.task_displays = app.task_displays]_vars

\* C25's case: the second run was made on a list whose display has as many
\* rows as the model allows tasks, some of them below the top level.
C25_Witness ==
    /\ loop = "rebuilt"
    /\ Len(Rows) = MaxTreeTasks
    /\ \E k \in DOMAIN Rows : Rows[k].level > 0

\* The lists that hold the tasks of app.tasks in any order.
Reordered ==
    {[k \in DOMAIN app.tasks |-> app.tasks[f[k]]] : f \in Permutations(DOMAIN app.tasks)}

\* C26: the display is the same for every order the Store can return the
\* fetched tasks in, tasks with equal created_at included.
C26_OrderIndependent ==
    Built => \A tasks \in Reordered : build_task_hierarchy(tasks) = Rows

(***************************************************************************)
(* Claims about cycles of the parent relation (specification SpecWalk).    *)
(***************************************************************************)
\* The task is on a cycle of the parent relation.
OnCycle(t) == t.id \in AncestorIds(app.tasks, t.id, Len(app.tasks))

\* The task is on a cycle or has a task of a cycle above it.
OnOrBelowCycle(t) ==
    \/ OnCycle(t)
    \/ \E k \in DOMAIN app.tasks :
           /\ app.tasks[k].id \in AncestorIds(app.tasks, t.id, Len(app.tasks))
           /\ OnCycle(app.tasks[k])

HasCycle == \E k \in DOMAIN app.tasks : OnCycle(app.tasks[k])

\* C27 as stated: on a task list whose parent relation has a cycle,
\* build_task_hierarchy never returns.
C27_CycleNeverEnds == HasCycle => loop # "walked"

\* C27 as the code has it: build_task_hierarchy returns on every task list,
\* with or without a cycle, having pushed no task twice; the tasks on a
\* cycle and the tasks below them are in no row, and the rows are those of
\* the list without them.
C27_WalkEnds ==
    <>(/\ loop = "walked"
       /\ Len(Rows) <= Len(app.tasks)
       /\ \A k \in DOMAIN app.tasks : OnOrBelowCycle(app.tasks[k]) => ~Emitted(app.tasks[k].id)
       /\ LET OffCycle(t) == ~OnOrBelowCycle(t)
          IN  Rows = build_task_hierarchy(SelectSeq(app.tasks, OffCycle)))

\* C27's case: the walk returned on a list in which two tasks are each
\* other's parent and a third task is a root.
C27_Witness ==
    /\ loop = "walked"
    /\ Len(Rows) = 1
    /\ \E i, j \in DOMAIN app.tasks :
           /\ i # j
           /\ app.tasks[i].parent_task_id = Some(app.tasks[j].id)
           /\ app.tasks[j].parent_task_id = Some(app.tasks[i].id)

(***************************************************************************)
(* Claims about the cursors in every state (specification Spec).           *)
(***************************************************************************)
\* The cursor is None over an empty sequence and an index below the length
\* of a non-empty one.
Coherent(cursor, len) ==
    IF len = 0 THEN cursor = None ELSE cursor # None /\ cursor[1] < len

\* C29: in every reachable state, the initial one included, the task cursor
\* is coherent with task_displays and the workspace cursor with workspaces.
C29_CursorsCoherent ==
    /\ Coherent(app.task_state, Len(app.task_displays))
    /\ Coherent(app.workspace_state, Len(app.workspaces))

\* The handlers of the four navigation commands.
NavigationOps == {"next_workspace", "previous_workspace", "next_task", "previous_task"}

\* C30: no navigation command underflows: none panics on len() - 1, and none
\* leaves a cursor at the wrapped index usize::MAX.
C30_NoUnderflow ==
    last.op \in NavigationOps =>
        /\ last.res # "panic"
        /\ app.workspace_state # Some(UsizeMax)
        /\ app.task_state # Some(UsizeMax)
        /\ app.selected_workspace # Some(UsizeMax)

(***************************************************************************)
(* Claims about the order of commands (specification SpecSteps).           *)
(***************************************************************************)
\* The step reads a key and starts its handler.
KeyIsRead == cmd' # None /\ cmd'[1].done = 0

\* C28: commands are serialized.  A key is read only when no handler is in
\* progress; while one is, every step is the next Store statement of that
\* same handler, run against what the previous one left; and the handler
\* returns only after all its statements, leaving the App and the Store
\* that the handler run in one piece on the state it started from leaves.
C28_CommandsSerialized ==
    [][/\ KeyIsRead => cmd = None /\ db' = db
       /\ (cmd # None /\ cmd' # None) =>
              /\ cmd' = Some([cmd[1] EXCEPT !.done = @ + 1])
              /\ cmd'[1].done <= Statements(cmd[1])
              /\ LET reached == IF cmd'[1].done < Statements(cmd[1])
                                THEN Ran(cmd[1], cmd'[1].done + 1)
                                ELSE Ran(cmd[1], cmd[1].fuel)
                 IN  app' = reached.app /\ db' = reached.db
       /\ (cmd # None /\ cmd' = None) =>
              /\ cmd[1].done = Ran(cmd[1], cmd[1].fuel).calls
              /\ app' = Ran(cmd[1], cmd[1].fuel).app
              /\ db' = Ran(cmd[1], cmd[1].fuel).db
              /\ db' = db]_vars

\* C28's case: a workspace delete is suspended between its two statements,
\* with the first one's deletions already in the store.
C28_Witness ==
    /\ cmd # None
    /\ cmd[1].key = "y"
    /\ cmd[1].a.focus = "Workspaces"
    /\ cmd[1].done = 1
    /\ Statements(cmd[1]) >= 2
    /\ db # cmd[1].db
    /\ loop = "handling"

(***************************************************************************)
(* Claims about what the task panel holds in every state (specification    *)
(* Spec).                                                                  *)
(***************************************************************************)
\* The workspace under the workspace cursor, None when the cursor is None
\* or indexes no workspace.
CursorWorkspace == IF app.workspace_state = None THEN None
                   ELSE Get(app.workspaces, app.workspace_state[1])

\* C31: in every reachable state every row of the task display, and every
\* task in memory, belongs to the workspace under the workspace cursor, and
\* with no workspace tasks and task_displays are empty.
C31_DisplayOfSelected ==
    IF app.workspaces = <<>>
    THEN app.tasks = <<>> /\ app.task_displays = <<>>
    ELSE \A k \in DOMAIN app.task_displays :
            /\ CursorWorkspace # None
            /\ app.task_displays[k].task.workspace_id = CursorWorkspace[1].id

\* Following the parent links of t through the tasks of the list reaches,
\* within n links, a task with no parent.
RECURSIVE ReachesRoot(_, _, _)
ReachesRoot(tasks, t, n) ==
    IF t.parent_task_id = None THEN TRUE
    ELSE IF n = 0 THEN FALSE
    ELSE \E k \in DOMAIN tasks :
            /\ tasks[k].id = t.parent_task_id[1]
            /\ ReachesRoot(tasks, tasks[k], n - 1)

\* The task is one the display has to show.
Shown(t) == ReachesRoot(app.tasks, t, Len(app.tasks))

\* C32: in every reachable state task_displays is the flattening of the
\* tasks in memory: row k carries index k, every row is a task of the
\* fetched list, no task has two rows, and a task has a row exactly when
\* its parent links lead through tasks of the list to a task with no parent.
C32_DisplayIsFlattening ==
    /\ \A k \in DOMAIN app.task_displays : app.task_displays[k].index = k - 1
    /\ \A k \in DOMAIN app.task_displays :
          \E j \in DOMAIN app.tasks : app.tasks[j] = app.task_displays[k].task
    /\ \A i, k \in DOMAIN app.task_displays :
          app.task_displays[i].task.id = app.task_displays[k].task.id => i = k
    /\ \A j \in DOMAIN app.tasks :
          Shown(app.tasks[j]) <=>
              \E k \in DOMAIN app.task_displays :
                  app.task_displays[k].task = app.tasks[j]

\* The reload after a deletion left a task on display and kept out of it a
\* fetched task whose parent was the deleted one.
C32_Witness ==
    /\ loop = "running"
    /\ last.op = "confirm_delete" /\ last.res = "ok" /\ last.did
    /\ app.task_displays # <<>>
    /\ \E j \in DOMAIN app.tasks : ~Shown(app.tasks[j])
    /\ C32_DisplayIsFlattening

(***************************************************************************)
(* Claims about repeated toggles (specification Spec).                     *)
(***************************************************************************)
\* The step is the second of two toggles in Tasks focus that both reached
\* the store, with no key between them.
SecondToggle == last'.op = "toggle_current_task_completion" /\ last'.repeated # None

\* C33 as stated: the second of two consecutive toggles acts on the task the
\* first acted on, so it puts every completion flag back.
C33_ToggleTwiceRestores ==
    [][SecondToggle =>
           /\ last'.target = last'.repeated[1]
           /\ db'.tasks = WithFlipped(db, last'.repeated[1])]_vars

\* C33 amended: the second toggle acts on the task in the row the cursor
\* kept.  That is the task of the first toggle, whose flag is then put back,
\* exactly when the first toggle left its row in place; otherwise it is
\* another task, and the flag of the first stays flipped.
C33_ToggleTwiceSameRow ==
    [][SecondToggle =>
           /\ last'.task_cursor = last.task_cursor
           /\ last'.target = RowTaskBefore.id
           /\ db'.tasks = WithFlipped(db, RowTaskBefore.id)
           /\ (last'.target = last'.repeated[1]) <=> ~ToggleMovedRow]_vars

\* The second of two consecutive toggles acted on another task than the
\* first: both tasks, incomplete before, are now completed.
C33_Witness ==
    /\ last.op = "toggle_current_task_completion" /\ last.res = "ok"
    /\ last.repeated # None
    /\ last.target # last.repeated[1]
    /\ \A id \in {last.target, last.repeated[1]} :
          \E k \in DOMAIN db.tasks : db.tasks[k].id = id /\ db.tasks[k].completed

(***************************************************************************)
(* Claims about the delete dialog and the buffer (specification Spec).     *)
(***************************************************************************)
\* The cursor of the focused panel of the App a indexes an element of the
\* focused sequence.
CursorOnEntity(a) ==
    IF a.focus = "Workspaces"
    THEN InBounds(a.workspace_state, Len(a.workspaces))
    ELSE InBounds(a.task_state, Len(a.task_displays))

\* C34: the mode DeleteConfirm is entered only with the cursor of the
\* focused panel on an existing workspace or row, never over an empty
\* sequence or with a cursor that indexes no element.
C34_DeleteNeedsEntity ==
    [][(app.input_mode # "DeleteConfirm" /\ app'.input_mode = "DeleteConfirm") =>
           /\ last'.op = "start_delete_confirm"
           /\ CursorOnEntity(app')]_vars

(***************************************************************************)
(* Claims about the parent relation of the store (specification SpecDeep). *)
(***************************************************************************)
\* C35: every command leaves the parent relation of the store acyclic: a
\* task that was in the store keeps its parent_task_id, and a task that was
\* not is a root or names a task that was.
C35_ParentsAcyclic ==
    [][/\ Acyclic(db'.tasks)
       /\ \A j \in DOMAIN db'.tasks :
             IF InStore(db, db'.tasks[j].id)
             THEN \A k \in DOMAIN db.tasks :
                      db.tasks[k].id = db'.tasks[j].id =>
                          db.tasks[k].parent_task_id = db'.tasks[j].parent_task_id
             ELSE \/ db'.tasks[j].parent_task_id = None
                  \/ InStore(db, db'.tasks[j].parent_task_id[1])]_vars

\* A subtask was just created under a task that is itself a subtask: the
\* store holds a chain of three.
C35_Witness ==
    /\ Succeeded("finish_creating")
    /\ \E i, j, k \in DOMAIN db.tasks :
           /\ db.tasks[k].id = last.target
           /\ db.tasks[k].parent_task_id = Some(db.tasks[j].id)
           /\ db.tasks[j].parent_task_id = Some(db.tasks[i].id)
           /\ db.tasks[i].parent_task_id = None
    /\ Acyclic(db.tasks)

(***************************************************************************)
(* Claims about delete_target and the buffer in every state                *)
(* (specification SpecText).                                               *)
(***************************************************************************)
\* C36: in every reachable state delete_target is Some exactly when the mode
\* is DeleteConfirm, and the input buffer is empty in the modes Normal, Help
\* and DeleteConfirm.
C36_TargetAndBuffer ==
    /\ app.delete_target # None <=> app.input_mode = "DeleteConfirm"
    /\ app.input_mode \in {"Normal", "Help", "DeleteConfirm"} => app.input_buffer = <<>>

\* The delete dialog is open on an entity whose name of two characters went
\* through the buffer: the target is that name and the buffer is empty.
C36_Witness ==
    /\ loop = "running"
    /\ last.op = "start_delete_confirm"
    /\ app.input_mode = "DeleteConfirm"
    /\ app.delete_target # None
    /\ Len(app.delete_target[1]) = TextLen
    /\ app.input_buffer = <<>>
====
